---- MODULE Spec2Model ----
(***************************************************************************)
(* chess-rs: the header-driven record parser (src/src/lib.rs,              *)
(* src/src/main.rs parse_pgn_game / parse_pgn_file), the per-period        *)
(* pipeline (process_year_month) and the fleet orchestrator (main).        *)
(*                                                                         *)
(* Strings are sequences of one-character strings, so that to_lowercase,   *)
(* contains, split and the integer parsers are computed, not assumed.      *)
(***************************************************************************)
EXTENDS Integers, Sequences, FiniteSets, TLC

VARIABLES
    input,          \* argument handed to a pure function (SpecParse)
    output,         \* what the function returned, or Pending
    fs,             \* per period: the files of its working directory
    pc,             \* per period: position of process_year_month
    run,            \* per period: what the current run has done so far
    games,          \* per period: games.len() after parse_pgn_file
    file_counter,   \* per period: file_counter of the emit loop
    chunks,         \* per period: the chunks handed out, in order
    mainPc,         \* position of main
    year,           \* main's loop variable
    month,          \* main's loop variable
    tasks,          \* main's FuturesUnordered: periods whose handle is pending
    restarts,       \* how many times the process has exited and been re-run
    remote,         \* per period: the number of games of the published archive
    spawned,        \* per period: how many tasks main has spawned for it
    dirs            \* the directories above the working directories that exist

vars == <<input, output, fs, pc, run, games, file_counter, chunks,
          mainPc, year, month, tasks, restarts, remote, spawned, dirs>>

parseVars == <<input, output>>
periodVars == <<fs, pc, run, games, file_counter, chunks, dirs>>
mainVars == <<mainPc, year, month, tasks, spawned>>

-----------------------------------------------------------------------------
(* Bounds of the model.                                                    *)

MaxEdits == 2       \* tags of the sample block changed in one input block
MaxBlocks == 2      \* game blocks in one archive text
MaxRestarts == 2    \* process exits followed by a re-run
MaxTasks == 2       \* period tasks main launches in the fleet model
MaxChunks == 3      \* archive sizes go up to MaxChunks * chunk_size + 2

-----------------------------------------------------------------------------
(* Strings.                                                                *)

UpperChars == <<"A","B","C","D","E","F","G","H","I","J","K","L","M",
                "N","O","P","Q","R","S","T","U","V","W","X","Y","Z">>
LowerChars == <<"a","b","c","d","e","f","g","h","i","j","k","l","m",
                "n","o","p","q","r","s","t","u","v","w","x","y","z">>
DigitChars == <<"0","1","2","3","4","5","6","7","8","9">>

char_to_lowercase(c) ==
    IF \E k \in 1..26 : UpperChars[k] = c
    THEN LowerChars[CHOOSE k \in 1..26 : UpperChars[k] = c]
    ELSE c

\* str::to_lowercase on ASCII text
to_lowercase(s) == [i \in 1..Len(s) |-> char_to_lowercase(s[i])]

\* str::contains(pattern)
contains(s, pat) ==
    \E i \in 0..(Len(s) - Len(pat)) :
        \A j \in 1..Len(pat) : s[i + j] = pat[j]

RECURSIVE split_from(_, _, _, _)
split_from(s, sep, i, cur) ==
    IF i > Len(s) THEN <<cur>>
    ELSE IF s[i] = sep THEN <<cur>> \o split_from(s, sep, i + 1, <<>>)
    ELSE split_from(s, sep, i + 1, Append(cur, s[i]))

\* str::split(char): a separator always ends a part, empty parts are kept
split(s, sep) == split_from(s, sep, 1, <<>>)

IsDigit(c) == \E k \in 1..10 : DigitChars[k] = c
DigitVal(c) == (CHOOSE k \in 1..10 : DigitChars[k] = c) - 1

RECURSIVE digits_value(_, _, _)
digits_value(s, i, acc) ==
    IF i > Len(s) THEN acc ELSE digits_value(s, i + 1, acc * 10 + DigitVal(s[i]))

Err == [tag |-> "Err"]
Ok(v) == [tag |-> "Ok", v |-> v]

\* A 32-bit integer is kept as two 16-bit limbs, value = hi * 2^16 + lo with
\* lo in 0..2^16-1, so that the 32-bit limits and their wrap-around are exact.
Limb == 2^16

W(hi, lo) == [hi |-> hi + (lo \div Limb), lo |-> lo % Limb]

Small(n) == W(0, n)

in_i32(x) == x.hi >= 0 - (Limb \div 2) /\ x.hi < Limb \div 2
in_u32(x) == x.hi >= 0 /\ x.hi < Limb

w_sub(x, y) == W(x.hi - y.hi, x.lo - y.lo)
w_neg(x) == W(0 - x.hi, 0 - x.lo)
w_lt(x, y) == x.hi < y.hi \/ (x.hi = y.hi /\ x.lo < y.lo)

RECURSIVE digits_wide(_, _, _)
digits_wide(s, i, acc) ==
    IF i > Len(s) \/ acc.hi >= Limb THEN acc      \* past 2^32 the parse has failed
    ELSE digits_wide(s, i + 1, W(acc.hi * 10, acc.lo * 10 + DigitVal(s[i])))

\* <i32 as FromStr>::from_str: optional sign, at least one digit, in range
parse_i32(s) ==
    LET signed == Len(s) > 0 /\ s[1] \in {"+", "-"}
        body == IF signed THEN SubSeq(s, 2, Len(s)) ELSE s
        mag == digits_wide(body, 1, Small(0))
        val == IF signed /\ s[1] = "-" THEN w_neg(mag) ELSE mag
    IN  IF Len(body) = 0 \/ \E i \in 1..Len(body) : ~IsDigit(body[i]) THEN Err
        ELSE IF ~in_i32(val) THEN Err
        ELSE Ok(val)

\* <u32 as FromStr>::from_str: optional "+", at least one digit, in range
parse_u32(s) ==
    LET signed == Len(s) > 0 /\ s[1] = "+"
        body == IF signed THEN SubSeq(s, 2, Len(s)) ELSE s
        val == digits_wide(body, 1, Small(0))
    IN  IF Len(body) = 0 \/ \E i \in 1..Len(body) : ~IsDigit(body[i]) THEN Err
        ELSE IF ~in_u32(val) THEN Err
        ELSE Ok(val)

-----------------------------------------------------------------------------
(* Enumeration codecs (lib.rs).                                            *)

s_bullet == <<"b","u","l","l","e","t">>
s_blitz == <<"b","l","i","t","z">>
s_rapid == <<"r","a","p","i","d">>
s_classical == <<"c","l","a","s","s","i","c","a","l">>
s_unrated == <<"u","n","r","a","t","e","d">>
s_normal == <<"n","o","r","m","a","l">>
s_time_forfeit == <<"t","i","m","e"," ","f","o","r","f","e","i","t">>
s_time == <<"t","i","m","e">>
s_Bullet == <<"B","u","l","l","e","t">>
s_Blitz == <<"B","l","i","t","z">>
s_Rapid == <<"R","a","p","i","d">>
s_Classical == <<"C","l","a","s","s","i","c","a","l">>
s_UnknownOpen == <<"U","n","k","n","o","w","n"," ","(">>
s_Close == <<")">>

Panic(msg) == [tag |-> "Panic", msg |-> msg]

\* impl FromStr for TerminationType
TerminationType_from_str(s) ==
    LET l == to_lowercase(s)
    IN  IF l = s_normal THEN Ok("Normal")
        ELSE IF l = s_time_forfeit THEN Ok("TimeForfeit")
        ELSE IF l = s_time THEN Ok("TimeForfeit")
        ELSE Err

\* impl FromStr for GameType
GameType_from_str(s) ==
    LET l == to_lowercase(s)
    IN  IF l = s_bullet THEN Ok("Bullet")
        ELSE IF l = s_blitz THEN Ok("Blitz")
        ELSE IF l = s_rapid THEN Ok("Rapid")
        ELSE IF l = s_classical THEN Ok("Classical")
        ELSE Err

\* the string `out` built by the if/else chain of
\* extract_game_type_from_event_string
game_type_text(event) ==
    IF contains(to_lowercase(event), s_bullet) THEN s_Bullet
    ELSE IF contains(to_lowercase(event), s_blitz) THEN s_Blitz
    ELSE IF contains(to_lowercase(event), s_rapid) THEN s_Rapid
    ELSE IF contains(to_lowercase(event), s_classical) THEN s_Classical
    ELSE s_UnknownOpen \o event \o s_Close

\* GameType::from_str(&out).expect("Invalid game type")
extract_game_type_from_event_string(event) ==
    LET r == GameType_from_str(game_type_text(event))
    IN  IF r.tag = "Ok" THEN Ok(r.v) ELSE Panic("Invalid game type")

s_1_0 == <<"1","-","0">>
s_0_1 == <<"0","-","1">>

NoneV == [tag |-> "None"]
Some(v) == [tag |-> "Some", v |-> v]

extract_winner_from_result_string(result) ==
    IF result = s_1_0 THEN Some("White")
    ELSE IF result = s_0_1 THEN Some("Black")
    ELSE NoneV

extract_termination_type(termination) ==
    LET l == to_lowercase(termination)
    IN  IF l = s_normal THEN Ok("Normal")
        ELSE IF l = s_time_forfeit THEN Ok("TimeForfeit")
        ELSE Panic("Invalid termination type")

\* impl FromStr for TimeControl
TimeControl_from_str(s) ==
    LET parts == split(s, "+")
    IN  IF Len(parts) # 2 THEN Err
        ELSE IF parse_u32(parts[1]).tag = "Err" THEN Err
        ELSE IF parse_u32(parts[2]).tag = "Err" THEN Err
        ELSE Ok(<<parse_u32(parts[1]).v, parse_u32(parts[2]).v>>)

-----------------------------------------------------------------------------
(* chrono's NaiveDate::parse_from_str(s, "%Y.%m.%d") and                   *)
(* NaiveTime::parse_from_str(s, "%H:%M:%S"), on unsigned digit fields.     *)

AllDigits(s) == Len(s) > 0 /\ \A i \in 1..Len(s) : IsDigit(s[i])

IsLeap(y) == (y % 4 = 0 /\ y % 100 # 0) \/ y % 400 = 0

DaysIn(y, m) ==
    IF m = 2 THEN (IF IsLeap(y) THEN 29 ELSE 28)
    ELSE IF m \in {4, 6, 9, 11} THEN 30 ELSE 31

NaiveDate_parse_from_str(s) ==
    LET parts == split(s, ".")
    IN  IF Len(parts) # 3 THEN Err
        ELSE IF ~(AllDigits(parts[1]) /\ AllDigits(parts[2]) /\ AllDigits(parts[3])) THEN Err
        ELSE IF Len(parts[2]) > 2 \/ Len(parts[3]) > 2 THEN Err
        ELSE LET y == digits_value(parts[1], 1, 0)
                 m == digits_value(parts[2], 1, 0)
                 d == digits_value(parts[3], 1, 0)
             IN  IF m < 1 \/ m > 12 \/ d < 1 \/ d > DaysIn(y, m) THEN Err
                 ELSE Ok(<<y, m, d>>)

NaiveTime_parse_from_str(s) ==
    LET parts == split(s, ":")
    IN  IF Len(parts) # 3 THEN Err
        ELSE IF ~(AllDigits(parts[1]) /\ AllDigits(parts[2]) /\ AllDigits(parts[3])) THEN Err
        ELSE IF Len(parts[1]) > 2 \/ Len(parts[2]) > 2 \/ Len(parts[3]) > 2 THEN Err
        ELSE LET h == digits_value(parts[1], 1, 0)
                 m == digits_value(parts[2], 1, 0)
                 sec == digits_value(parts[3], 1, 0)
             IN  IF h > 23 \/ m > 59 \/ sec > 60 THEN Err
                 ELSE Ok(<<h, m, sec>>)

\* Result::ok(): Ok(v) becomes Some(v), Err becomes None
ok(r) == IF r.tag = "Ok" THEN Some(r.v) ELSE NoneV

-----------------------------------------------------------------------------
(* Record Builder (main.rs parse_pgn_game).                                *)
(* A game text is a sequence of lines.  A line is [key, value]: for a line *)
(* of the shape [Key "Value"] the two captures, and key = "" for any other *)
(* line (move text, blank line).                                           *)

s_date_unknown == <<"?","?","?","?",".","?","?",".","?","?">>
s_time_unknown == <<"?","?",":","?","?",":","?","?">>

\* the regex ^\[(\w+)\s+"([^"]+)"\] : the value is non-empty and holds no quote
re_captures(line) ==
    /\ line.key # ""
    /\ Len(line.value) > 0
    /\ \A i \in 1..Len(line.value) : line.value[i] # "\""

RECURSIVE collect_headers(_, _, _)
collect_headers(pgn_text, i, headers) ==
    IF i > Len(pgn_text) THEN headers
    ELSE IF re_captures(pgn_text[i])
         THEN collect_headers(pgn_text, i + 1,
                              (pgn_text[i].key :> pgn_text[i].value) @@ headers)
         ELSE collect_headers(pgn_text, i + 1, headers)

EmptyMap == [k \in {} |-> <<>>]

headers_of(pgn_text) == collect_headers(pgn_text, 1, EmptyMap)

has(headers, key) == key \in DOMAIN headers

\* two's complement wrap of a value into the i32 range
wrap_i32(x) == W(((x.hi + Limb \div 2) % Limb) - Limb \div 2, x.lo)

\* `x as u32` for an i32 x
as_u32(x) == W(x.hi % Limb, x.lo)

I32_MIN == W(0 - (Limb \div 2), 0)

\* (white_elo - black_elo).abs() as i32.  With overflow checks (debug
\* profile) an overflowing subtraction or abs panics; without them (release
\* profile) both wrap.
rating_diff_of(white_elo, black_elo, overflow_checks) ==
    LET d == w_sub(white_elo, black_elo)
        w == wrap_i32(d)
    IN  IF d # w /\ overflow_checks THEN Panic("attempt to subtract with overflow")
        ELSE IF w = I32_MIN
             THEN (IF overflow_checks THEN Panic("attempt to negate with overflow")
                   ELSE Ok(I32_MIN))
        ELSE Ok(IF w.hi < 0 THEN w_neg(w) ELSE w)

parse_date(utc_date_str) ==
    IF utc_date_str = s_date_unknown THEN NoneV
    ELSE ok(NaiveDate_parse_from_str(utc_date_str))

parse_time(utc_time_str) ==
    IF utc_time_str = s_time_unknown THEN NoneV
    ELSE ok(NaiveTime_parse_from_str(utc_time_str))

build_game(h, overflow_checks, uuid) ==
    LET white_elo == parse_i32(h["WhiteElo"]).v
        black_elo == parse_i32(h["BlackElo"]).v
        diff == rating_diff_of(white_elo, black_elo, overflow_checks)
    IN  IF diff.tag = "Panic" THEN diff
        ELSE Some([rated |-> ~contains(to_lowercase(h["Event"]), s_unrated),
                   url |-> h["Site"],
                   game_type |-> extract_game_type_from_event_string(h["Event"]).v,
                   time_control |-> TimeControl_from_str(h["TimeControl"]).v,
                   white_player_name |-> h["White"],
                   white_player_elo |-> as_u32(white_elo),
                   black_player_name |-> h["Black"],
                   black_player_elo |-> as_u32(black_elo),
                   rating_diff |-> diff.v,
                   winner |-> extract_winner_from_result_string(h["Result"]),
                   termination_type |-> extract_termination_type(h["Termination"]).v,
                   date |-> parse_date(h["UTCDate"]),
                   time |-> parse_time(h["UTCTime"]),
                   opening_name |-> h["Opening"],
                   opening_eco |-> h["ECO"],
                   game_id |-> uuid])

\* The body of parse_pgn_game in statement order: each `?` returns None, each
\* panic unwinds out of the function.
parse_pgn_game(pgn_text, overflow_checks, uuid) ==
    LET h == headers_of(pgn_text)
    IN  IF ~has(h, "Event") THEN NoneV
        ELSE IF extract_game_type_from_event_string(h["Event"]).tag = "Panic"
             THEN extract_game_type_from_event_string(h["Event"])
        ELSE IF ~has(h, "Site") THEN NoneV
        ELSE IF ~has(h, "White") THEN NoneV
        ELSE IF ~has(h, "Black") THEN NoneV
        ELSE IF ~has(h, "WhiteElo") THEN NoneV
        ELSE IF parse_i32(h["WhiteElo"]).tag = "Err" THEN NoneV
        ELSE IF ~has(h, "BlackElo") THEN NoneV
        ELSE IF parse_i32(h["BlackElo"]).tag = "Err" THEN NoneV
        ELSE IF ~has(h, "TimeControl") THEN NoneV
        ELSE IF TimeControl_from_str(h["TimeControl"]).tag = "Err" THEN NoneV
        ELSE IF ~has(h, "Result") THEN NoneV
        ELSE IF ~has(h, "UTCDate") THEN NoneV
        ELSE IF ~has(h, "UTCTime") THEN NoneV
        ELSE IF ~has(h, "Opening") THEN NoneV
        ELSE IF ~has(h, "ECO") THEN NoneV
        ELSE IF ~has(h, "Termination") THEN NoneV
        ELSE IF extract_termination_type(h["Termination"]).tag = "Panic"
             THEN extract_termination_type(h["Termination"])
        ELSE build_game(h, overflow_checks, uuid)

-----------------------------------------------------------------------------
(* Batch Parser (main.rs parse_pgn_file).  The archive text is a sequence  *)
(* of lines; the marker "[Event " is found at the start of every line      *)
(* whose key is Event, whatever its value.                                 *)

RECURSIVE split_event(_, _, _, _)
split_event(content, i, started, cur) ==
    IF i > Len(content) THEN (IF started THEN <<cur>> ELSE <<>>)
    ELSE IF content[i].key = "Event"
         THEN (IF started THEN <<cur>> ELSE <<>>)
              \o split_event(content, i + 1, TRUE, <<content[i]>>)
         ELSE split_event(content, i + 1, started, Append(cur, content[i]))

\* content.split("[Event ").skip(1).map(|s| format!("[Event {}", s))
game_blocks(content) == split_event(content, 1, FALSE, <<>>)

RECURSIVE filter_some(_, _)
filter_some(results, i) ==
    IF i > Len(results) THEN <<>>
    ELSE IF results[i].tag = "Some"
         THEN <<results[i].v>> \o filter_some(results, i + 1)
         ELSE filter_some(results, i + 1)

\* games.par_iter().filter_map(parse_pgn_game).collect(): a panic of any
\* block's parse is resumed in the caller; otherwise the records are
\* collected in block order.  Each record gets a fresh game id.
parse_pgn_file(content, overflow_checks, uuid) ==
    LET blocks == game_blocks(content)
        results == [i \in 1..Len(blocks) |->
                        parse_pgn_game(blocks[i], overflow_checks, uuid + i)]
    IN  IF \E i \in 1..Len(blocks) : results[i].tag = "Panic"
        THEN results[CHOOSE i \in 1..Len(blocks) : results[i].tag = "Panic"]
        ELSE Ok(filter_some(results, 1))

-----------------------------------------------------------------------------
(* Inputs of the parser: the sample game of the repository's test with up  *)
(* to MaxEdits of its tag lines removed or given another value.            *)

TagOrder ==
    <<"Event", "Site", "White", "Black", "Result", "UTCDate", "UTCTime",
      "WhiteElo", "BlackElo", "WhiteRatingDiff", "ECO", "Opening", "TimeControl", "Termination">>

Val(v) == [present |-> TRUE, value |-> v]
NoLine == [present |-> FALSE, value |-> <<>>]

\* the sample game of test_parse_pgn_game, with short names
SampleTags ==
    ("Event" :> Val(<<"R","a","t","e","d"," ","B","u","l","l","e","t"," ","g","a","m","e">>)) @@
    ("Site" :> Val(<<"l",".","o","r","g","/","Q">>)) @@
    ("White" :> Val(<<"A","n","n">>)) @@
    ("Black" :> Val(<<"B","o","b">>)) @@
    ("Result" :> Val(<<"0","-","1">>)) @@
    ("UTCDate" :> Val(<<"2","0","1","4",".","0","6",".","3","0">>)) @@
    ("UTCTime" :> Val(<<"2","2",":","0","0",":","1","1">>)) @@
    ("WhiteElo" :> Val(<<"1","5","2","5">>)) @@
    ("BlackElo" :> Val(<<"1","4","5","8">>)) @@
    ("WhiteRatingDiff" :> Val(<<"-","1","4">>)) @@
    ("ECO" :> Val(<<"A","0","0">>)) @@
    ("Opening" :> Val(<<"M","i","e","s","e","s">>)) @@
    ("TimeControl" :> Val(<<"6","0","+","0">>)) @@
    ("Termination" :> Val(<<"T","i","m","e"," ","f","o","r","f","e","i","t">>))

\* what a tag's line may be replaced by: no line at all, or another value
Alternatives ==
    ("Event" :> {NoLine,
         Val(<<"R","a","t","e","d"," ","B","l","i","t","z"," ","g","a","m","e">>),
         Val(<<"R","A","P","I","D">>),
         Val(<<"C","l","a","s","s","i","c","a","l"," ","G","A","M","E">>),
         Val(<<"x","y","z">>),
         Val(<<"B","l","i","t","z"," ","b","u","l","l","e","t">>),
         Val(<<"U","n","r","a","t","e","d"," ","R","a","p","i","d">>)}) @@
    ("Site" :> {NoLine,
         Val(<<>>)}) @@
    ("White" :> {NoLine}) @@
    ("Black" :> {NoLine}) @@
    ("Result" :> {NoLine,
         Val(<<"1","-","0">>),
         Val(<<"1","/","2","-","1","/","2">>),
         Val(<<"*">>)}) @@
    ("UTCDate" :> {NoLine,
         Val(<<"?","?","?","?",".","?","?",".","?","?">>),
         Val(<<"2","0","1","4",".","1","3",".","0","1">>),
         Val(<<"2","0","1","4",".","0","2",".","3","0">>),
         Val(<<"i","n","v","a","l","i","d">>)}) @@
    ("UTCTime" :> {NoLine,
         Val(<<"?","?",":","?","?",":","?","?">>),
         Val(<<"2","5",":","0","0",":","0","0">>),
         Val(<<"2","2",":","0","0">>)}) @@
    ("WhiteElo" :> {NoLine,
         Val(<<"-","1">>),
         Val(<<"2","1","4","7","4","8","3","6","4","7">>),
         Val(<<"-","2","1","4","7","4","8","3","6","4","8">>),
         Val(<<"2","1","4","7","4","8","3","6","4","8">>),
         Val(<<"a","b","c">>),
         Val(<<"+","7">>)}) @@
    ("BlackElo" :> {NoLine,
         Val(<<"-","1">>),
         Val(<<"2","1","4","7","4","8","3","6","4","7">>),
         Val(<<"-","2","1","4","7","4","8","3","6","4","8">>),
         Val(<<"a","b","c">>),
         Val(<<"1","5","2","5">>)}) @@
    ("ECO" :> {NoLine}) @@
    ("Opening" :> {NoLine}) @@
    ("TimeControl" :> {NoLine,
         Val(<<"5","+","5">>),
         Val(<<"5","+","i","n","v","a","l","i","d">>),
         Val(<<"i","n","v","a","l","i","d">>),
         Val(<<"-">>),
         Val(<<"5","+","5","+","5">>)}) @@
    ("Termination" :> {NoLine,
         Val(<<"N","o","r","m","a","l">>),
         Val(<<"t","i","m","e"," ","f","o","r","f","e","i","t">>),
         Val(<<"T","I","M","E"," ","F","O","R","F","E","I","T">>),
         Val(<<"t","i","m","e">>),
         Val(<<"T","i","m","e">>),
         Val(<<"T","I","M","E">>),
         Val(<<"A","b","a","n","d","o","n","e","d">>)})

Edits ==
    UNION {{[tag |-> t, line |-> l] : l \in Alternatives[t]} : t \in DOMAIN Alternatives}

RECURSIVE EditedTags(_)
EditedTags(k) ==
    IF k = 0 THEN {SampleTags}
    ELSE LET prev == EditedTags(k - 1)
         IN  prev \cup UNION {{[a EXCEPT ![e.tag] = e.line] : a \in prev} : e \in Edits}

MoveText == [key |-> "", value |-> <<"1", ".", " ", "d", "3">>]

RECURSIVE tag_lines(_, _)
tag_lines(a, i) ==
    IF i > Len(TagOrder) THEN <<MoveText>>
    ELSE IF a[TagOrder[i]].present
         THEN <<[key |-> TagOrder[i], value |-> a[TagOrder[i]].value]>> \o tag_lines(a, i + 1)
         ELSE tag_lines(a, i + 1)

\* the text of a game whose tag lines are given by a
block_text(a) == tag_lines(a, 1)

\* the game texts with at most k tag lines edited
BlockInputs(k) == {block_text(a) : a \in EditedTags(k)}

\* the blocks an archive text is put together from
ArchiveEdits ==
    {[tag |-> "Termination", line |-> Val(<<"N","o","r","m","a","l">>)],
     [tag |-> "Site", line |-> NoLine],
     [tag |-> "Event", line |-> NoLine],
     [tag |-> "WhiteElo", line |-> Val(<<"a","b","c">>)],
     [tag |-> "TimeControl", line |-> Val(<<"i","n","v","a","l","i","d">>)],
     [tag |-> "Termination", line |-> Val(<<"A","b","a","n","d","o","n","e","d">>)],
     [tag |-> "Event", line |-> Val(<<"x","y","z">>)],
     [tag |-> "UTCDate", line |-> Val(<<"2","0","1","4",".","1","3",".","0","1">>)]}

ArchiveBlocks ==
    {block_text(SampleTags)}
        \cup {block_text([SampleTags EXCEPT ![e.tag] = e.line]) : e \in ArchiveEdits}

RECURSIVE concat(_, _)
concat(texts, i) ==
    IF i > Len(texts) THEN <<>> ELSE texts[i] \o concat(texts, i + 1)

\* the archive texts of at most k blocks
ArchiveInputs(k) ==
    {concat(bs, 1) : bs \in UNION {[1..n -> ArchiveBlocks] : n \in 0..k}}

EventInputs == {l.value : l \in Alternatives["Event"] \cup {SampleTags["Event"]}}

TerminationInputs ==
    {l.value : l \in Alternatives["Termination"] \cup {SampleTags["Termination"]}}

Uuids == {10, 20}

-----------------------------------------------------------------------------
(* The parser's functions applied to one input each.                       *)

Pending == [fn |-> "none"]

\* the string argument of an event or termination input
arg == input.v[1].value

Inputs(edits, blocks) ==
    {[kind |-> "block", v |-> b] : b \in BlockInputs(edits)}
        \cup {[kind |-> "archive", v |-> c] : c \in ArchiveInputs(blocks)}
        \cup {[kind |-> "event", v |-> <<[key |-> "Event", value |-> e]>>] :
                  e \in EventInputs}
        \cup {[kind |-> "termination", v |-> <<[key |-> "Termination", value |-> t]>>] :
                  t \in TerminationInputs}

ApplyParseGame ==
    /\ input.kind = "block" /\ output = Pending
    /\ \E overflow_checks \in BOOLEAN, uuid \in Uuids :
           output' = [fn |-> "parse_pgn_game",
                      r |-> parse_pgn_game(input.v, overflow_checks, uuid)]
    /\ UNCHANGED <<input, periodVars, mainVars, restarts, remote>>

ApplyParseFile ==
    /\ input.kind = "archive" /\ output = Pending
    /\ \E overflow_checks \in BOOLEAN, uuid \in Uuids :
           output' = [fn |-> "parse_pgn_file",
                      r |-> parse_pgn_file(input.v, overflow_checks, uuid)]
    /\ UNCHANGED <<input, periodVars, mainVars, restarts, remote>>

ApplyExtractGameType ==
    /\ input.kind = "event" /\ output = Pending
    /\ output' = [fn |-> "extract_game_type_from_event_string",
                  r |-> extract_game_type_from_event_string(arg)]
    /\ UNCHANGED <<input, periodVars, mainVars, restarts, remote>>

ApplyTerminationFromStr ==
    /\ input.kind = "termination" /\ output = Pending
    /\ output' = [fn |-> "TerminationType::from_str",
                  r |-> TerminationType_from_str(arg)]
    /\ UNCHANGED <<input, periodVars, mainVars, restarts, remote>>

ApplyExtractTermination ==
    /\ input.kind = "termination" /\ output = Pending
    /\ output' = [fn |-> "extract_termination_type",
                  r |-> extract_termination_type(arg)]
    /\ UNCHANGED <<input, periodVars, mainVars, restarts, remote>>

Idle == "idle"

InitParse ==
    /\ input \in Inputs(MaxEdits, MaxBlocks)
    /\ output = Pending
    /\ fs = Idle /\ pc = Idle /\ run = Idle /\ games = Idle
    /\ file_counter = Idle /\ chunks = Idle
    /\ mainPc = Idle /\ year = 0 /\ month = 0 /\ tasks = {} /\ restarts = 0
    /\ remote = Idle /\ spawned = Idle /\ dirs = Idle

NextParse ==
    \/ ApplyParseGame
    \/ ApplyParseFile
    \/ ApplyExtractGameType
    \/ ApplyTerminationFromStr
    \/ ApplyExtractTermination

SpecParse == InitParse /\ [][NextParse]_vars

-----------------------------------------------------------------------------
(* Workspace paths (main.rs ensure_folder_structure, process_year_month),  *)
(* built character by character as the format! calls build them.           *)

s_lichess_data == <<"l","i","c","h","e","s","s","_","d","a","t","a">>
s_slash == <<"/">>
s_dash == <<"-">>
s_pgn_zst == <<".","p","g","n",".","z","s","t">>
s_pgn == <<".","p","g","n">>
s_parquet == <<".","p","a","r","q","u","e","t">>
s_underscores == <<"_","_">>

RECURSIVE display_digits(_)
display_digits(n) ==
    IF n < 10 THEN <<DigitChars[n + 1]>>
    ELSE Append(display_digits(n \div 10), DigitChars[(n % 10) + 1])

\* "{}" of an i32
display(n) == IF n < 0 THEN s_dash \o display_digits(0 - n) ELSE display_digits(n)

RECURSIVE zeros(_)
zeros(k) == IF k <= 0 THEN <<>> ELSE <<"0">> \o zeros(k - 1)

\* "{:0width$}" of an i32: zeros go after the sign, up to the width
display_padded(n, width) ==
    IF n < 0
    THEN s_dash \o zeros(width - 1 - Len(display_digits(0 - n))) \o display_digits(0 - n)
    ELSE zeros(width - Len(display_digits(n))) \o display_digits(n)

\* ensure_folder_structure: format!("lichess_data/{}/{}", year, format!("{:02}", month))
folder_path(y, m) ==
    s_lichess_data \o s_slash \o display(y) \o s_slash \o display_padded(m, 2)

\* the directory named by its year alone
work_dir_mut(y, m) == s_lichess_data \o s_slash \o display(y)

\* process_year_month: format!("lichess_data/{}/{}", year, format!("{:02}", month))
work_dir(y, m) ==
    s_lichess_data \o s_slash \o display(y) \o s_slash \o display_padded(m, 2)

\* format!("{}/{}-{:02}.pgn.zst", work_dir, year, month)
compressed_path(y, m) ==
    work_dir(y, m) \o s_slash \o display(y) \o s_dash \o display_padded(m, 2) \o s_pgn_zst

\* format!("{}/{}-{:02}.pgn", work_dir, year, month)
pgn_path(y, m) ==
    work_dir(y, m) \o s_slash \o display(y) \o s_dash \o display_padded(m, 2) \o s_pgn

\* format!("{}/{}-{:02}__{:03}.parquet", work_dir, year, month, file_counter)
parquet_path(y, m, counter) ==
    work_dir(y, m) \o s_slash \o display(y) \o s_dash \o display_padded(m, 2)
        \o s_underscores \o display_padded(counter, 3) \o s_parquet

\* Path::parent: the path without its last component
RECURSIVE parent(_)
parent(path) ==
    IF path = <<>> THEN <<>>
    ELSE IF path[Len(path)] = "/" THEN SubSeq(path, 1, Len(path) - 1)
    ELSE parent(SubSeq(path, 1, Len(path) - 1))

\* the directories above path, which create_dir_all(path) makes when they
\* are missing
RECURSIVE parents(_)
parents(path) ==
    IF parent(path) = <<>> THEN {} ELSE {parent(path)} \cup parents(parent(path))

-----------------------------------------------------------------------------
(* Period Pipeline (main.rs process_year_month and the functions it calls) *)
(* A period is <<year, month>>.  Of a file the model keeps whether it is   *)
(* absent, partial (created, its writer did not finish), complete, or, for *)
(* the .pgn, truncated (the whole output of decoding a partial archive).   *)

chunk_size == 100000

NewRun(pgn_exists) ==
    [pgn_at_start |-> pgn_exists, fetch_skipped |-> FALSE,
     download_called |-> FALSE, decompress_called |-> FALSE]

EmptyDir == [dir |-> FALSE, zst |-> "absent", pgn |-> "absent"]

\* Path::new(&compressed_path).exists()
compressed_exists(p) == fs[p].zst # "absent"

\* Path::new(&pgn_path).exists()
pgn_exists(p) == fs[p].pgn # "absent"

\* the condition of `if !Path::new(&compressed_path).exists()`
needs_download(p) == ~compressed_exists(p)

\* the existence test dropped: decompress on every run
needs_decompress_mut(p) == TRUE

\* the condition of `if !Path::new(&pgn_path).exists()`
needs_decompress(p) == ~pgn_exists(p)

\* process_year_month(year, month) is called
StartRun(p) ==
    /\ pc[p] = "idle"
    /\ pc' = [pc EXCEPT ![p] = "ensure"]
    /\ run' = [run EXCEPT ![p] = NewRun(pgn_exists(p))]
    /\ games' = [games EXCEPT ![p] = 0]
    /\ file_counter' = [file_counter EXCEPT ![p] = 0]
    /\ chunks' = [chunks EXCEPT ![p] = <<>>]
    /\ UNCHANGED <<fs, dirs>>

\* ensure_folder_structure(year, month)?: create_dir_all first tries to make
\* folder_path itself.  It is made, or is there already, when its parent
\* exists; with no parent the attempt gives NotFound and create_dir_all goes
\* on to the parents.
EnsureFolder(p) ==
    /\ pc[p] = "ensure"
    /\ \/ /\ parent(folder_path(p[1], p[2])) \in dirs
          /\ fs' = [fs EXCEPT ![p].dir = TRUE]
          /\ pc' = [pc EXCEPT ![p] = "check_compressed"]
       \/ /\ parent(folder_path(p[1], p[2])) \notin dirs
          /\ pc' = [pc EXCEPT ![p] = "ensure_parents"]
          /\ UNCHANGED fs
       \/ /\ ~fs[p].dir                      \* create_dir_all fails
          /\ pc' = [pc EXCEPT ![p] = "failed"]
          /\ UNCHANGED fs
    /\ UNCHANGED <<run, games, file_counter, chunks, dirs>>

\* create_dir_all after NotFound: it makes each parent of folder_path that is
\* missing, taking one that another task made meanwhile as made, and then
\* folder_path.  A failure is taken at the first directory it tries to make.
EnsureParents(p) ==
    /\ pc[p] = "ensure_parents"
    /\ \/ /\ dirs' = dirs \cup parents(folder_path(p[1], p[2]))
          /\ fs' = [fs EXCEPT ![p].dir = TRUE]
          /\ pc' = [pc EXCEPT ![p] = "check_compressed"]
       \/ /\ pc' = [pc EXCEPT ![p] = "failed"]
          /\ UNCHANGED <<fs, dirs>>
    /\ UNCHANGED <<run, games, file_counter, chunks>>

\* if !Path::new(&compressed_path).exists() { download } else { skip }
CheckCompressed(p) ==
    /\ pc[p] = "check_compressed"
    /\ IF needs_download(p)
       THEN /\ pc' = [pc EXCEPT ![p] = "download_send"]
            /\ run' = [run EXCEPT ![p].download_called = TRUE]
       ELSE /\ pc' = [pc EXCEPT ![p] = "check_pgn"]
            /\ run' = [run EXCEPT ![p].fetch_skipped = TRUE]
    /\ UNCHANGED <<fs, games, file_counter, chunks, dirs>>

\* download_file: client.get(url).send().await? and the status check
DownloadSend(p) ==
    /\ pc[p] = "download_send"
    /\ \E response \in {"error", "not_success", "success"} :
           pc' = [pc EXCEPT ![p] = IF response = "success" THEN "download_create"
                                   ELSE "failed"]
    /\ UNCHANGED <<fs, run, games, file_counter, chunks, dirs>>

\* download_file: async_fs::File::create(output_path).await?
DownloadCreate(p) ==
    /\ pc[p] = "download_create"
    /\ \/ /\ fs' = [fs EXCEPT ![p].zst = "partial"]
          /\ pc' = [pc EXCEPT ![p] = "download_stream"]
       \/ /\ pc' = [pc EXCEPT ![p] = "failed"]
          /\ UNCHANGED fs
    /\ UNCHANGED <<run, games, file_counter, chunks, dirs>>

\* download_file: the while loop over the byte stream.  A chunk or a write
\* that fails returns the error and leaves what was written; the end of the
\* stream returns Ok with the whole archive written.
DownloadStream(p) ==
    /\ pc[p] = "download_stream"
    /\ \/ /\ fs' = [fs EXCEPT ![p].zst = "complete"]
          /\ pc' = [pc EXCEPT ![p] = "check_pgn"]
       \/ /\ pc' = [pc EXCEPT ![p] = "failed"]
          /\ UNCHANGED fs
    /\ UNCHANGED <<run, games, file_counter, chunks, dirs>>

\* if !Path::new(&pgn_path).exists() { decompress } else { skip }
CheckDecompressed(p) ==
    /\ pc[p] = "check_pgn"
    /\ IF needs_decompress(p)
       THEN /\ pc' = [pc EXCEPT ![p] = "decompress_create"]
            /\ run' = [run EXCEPT ![p].decompress_called = TRUE]
       ELSE /\ pc' = [pc EXCEPT ![p] = "parse"]
            /\ UNCHANGED run
    /\ UNCHANGED <<fs, games, file_counter, chunks, dirs>>

\* decompress_zst_file: fs::File::open(input_path)? then
\* fs::File::create(output_path)?
DecompressCreate(p) ==
    /\ pc[p] = "decompress_create"
    /\ \/ /\ compressed_exists(p)
          /\ fs' = [fs EXCEPT ![p].pgn = "partial"]
          /\ pc' = [pc EXCEPT ![p] = "decompress_copy"]
       \/ /\ pc' = [pc EXCEPT ![p] = "failed"]
          /\ UNCHANGED fs
    /\ UNCHANGED <<run, games, file_counter, chunks, dirs>>

\* decompress_zst_file: copy_decode and flush.  Decoding a partial archive
\* fails at an incomplete frame, or ends cleanly when the bytes stop at a
\* frame boundary.
DecompressCopy(p) ==
    /\ pc[p] = "decompress_copy"
    /\ \/ /\ fs' = [fs EXCEPT ![p].pgn = IF fs[p].zst = "complete" THEN "complete"
                                         ELSE "truncated"]
          /\ pc' = [pc EXCEPT ![p] = "parse"]
       \/ /\ pc' = [pc EXCEPT ![p] = "failed"]
          /\ UNCHANGED fs
    /\ UNCHANGED <<run, games, file_counter, chunks, dirs>>

\* how many records the text of the period's .pgn file can give: all of the
\* archive's from the complete text, some of them from a cut one
parsed_counts(p, archive_games) ==
    IF fs[p].pgn = "absent" THEN {}
    ELSE IF fs[p].pgn = "complete" THEN {archive_games}
    ELSE {0, archive_games \div 2}

\* let games = parse_pgn_file(&pgn_path)?  An Err is a failed read of the
\* file; a panic of a block's parse unwinds through process_year_month.
ParseFile(p, archive_games) ==
    /\ pc[p] = "parse"
    /\ \/ \E n \in parsed_counts(p, archive_games) :
              /\ games' = [games EXCEPT ![p] = n]
              /\ pc' = [pc EXCEPT ![p] = "emit"]
       \/ /\ pc' = [pc EXCEPT ![p] = "failed"]
          /\ UNCHANGED games
       \/ /\ pgn_exists(p)
          /\ pc' = [pc EXCEPT ![p] = "panicked"]
          /\ UNCHANGED games
    /\ UNCHANGED <<fs, run, file_counter, chunks, dirs>>

\* where the next chunk of games.chunks(chunk_size) starts
emitted(p) ==
    IF chunks[p] = <<>> THEN 0
    ELSE chunks[p][Len(chunks[p])].from + chunks[p][Len(chunks[p])].len

\* every chunk taken to be a full one
next_chunk_len_mut(remaining, size) == size

\* the slice the chunks iterator yields next: at most size records
next_chunk_len(remaining, size) == IF remaining < size THEN remaining ELSE size

\* one iteration of `for chunk in games.chunks(chunk_size)`: the chunk is a
\* slice games[from .. from + len], tagged with file_counter
EmitChunk(p) ==
    /\ pc[p] = "emit"
    /\ emitted(p) < games[p]
    /\ file_counter' = [file_counter EXCEPT ![p] = @ + 1]
    /\ chunks' = [chunks EXCEPT ![p] =
           Append(@, [index |-> file_counter[p] + 1,
                      from |-> emitted(p),
                      len |-> next_chunk_len(games[p] - emitted(p), chunk_size)])]
    /\ UNCHANGED <<fs, pc, run, games, dirs>>

\* the chunks iterator is exhausted: process_year_month returns Ok(())
EmitDone(p) ==
    /\ pc[p] = "emit"
    /\ emitted(p) >= games[p]
    /\ pc' = [pc EXCEPT ![p] = "done"]
    /\ UNCHANGED <<fs, run, games, file_counter, chunks, dirs>>

\* the process exits, at any point of a run or after it, and is started
\* again later: the files stay as they are
ProcessExit(p) ==
    /\ pc[p] # "idle"
    /\ restarts < MaxRestarts
    /\ restarts' = restarts + 1
    /\ pc' = [pc EXCEPT ![p] = "idle"]
    /\ UNCHANGED <<fs, run, games, file_counter, chunks, dirs>>

\* the period of the single-period specification
FirstPeriod == <<2013, 8>>

\* sizes of the published archive: around every multiple of chunk_size
ArchiveSizes ==
    {n \in UNION {{k * chunk_size - 1, k * chunk_size, k * chunk_size + 1,
                   k * chunk_size + 2} : k \in 0..MaxChunks} : n >= 0}

InitPeriods(periods) ==
    /\ fs = [p \in periods |-> EmptyDir]
    /\ pc = [p \in periods |-> "idle"]
    /\ run = [p \in periods |-> NewRun(FALSE)]
    /\ games = [p \in periods |-> 0]
    /\ file_counter = [p \in periods |-> 0]
    /\ chunks = [p \in periods |-> <<>>]
    /\ dirs = {}

\* One period, run again and again on the same working directory.
Init ==
    /\ InitPeriods({FirstPeriod})
    /\ remote \in [{FirstPeriod} -> ArchiveSizes]
    /\ input = Idle /\ output = Pending
    /\ mainPc = Idle /\ year = 0 /\ month = 0 /\ tasks = {} /\ restarts = 0
    /\ spawned = Idle

\* what a step of a period's pipeline leaves alone in this specification
RunFrame == UNCHANGED <<parseVars, mainVars, restarts, remote>>

Next ==
    \E p \in {FirstPeriod} :
        \/ StartRun(p) /\ RunFrame
        \/ EnsureFolder(p) /\ RunFrame
        \/ EnsureParents(p) /\ RunFrame
        \/ CheckCompressed(p) /\ RunFrame
        \/ DownloadSend(p) /\ RunFrame
        \/ DownloadCreate(p) /\ RunFrame
        \/ DownloadStream(p) /\ RunFrame
        \/ CheckDecompressed(p) /\ RunFrame
        \/ DecompressCreate(p) /\ RunFrame
        \/ DecompressCopy(p) /\ RunFrame
        \/ ParseFile(p, remote[p]) /\ RunFrame
        \/ EmitChunk(p) /\ RunFrame
        \/ EmitDone(p) /\ RunFrame
        \/ ProcessExit(p) /\ UNCHANGED <<parseVars, mainVars, remote>>

Spec == Init /\ [][Next]_vars

-----------------------------------------------------------------------------
(* Fleet Orchestrator (main.rs main).  Every period of the loop's range    *)
(* has its own working directory; a spawned task runs the period's         *)
(* pipeline concurrently with main and with the other tasks.               *)

FirstYear == 2013
EndYear == 2018          \* for year in 2013..2018: the end is excluded
FirstMonthOf2013 == 8
LastMonthOf2017 == 4

LoopRange == {<<y, m>> : y \in FirstYear..(EndYear - 1), m \in 1..12}

\* the second `continue` left out: every month of 2017 is processed
skipped_mut(y, m) == y = 2013 /\ m < FirstMonthOf2013

\* the two `continue` conditions of the loop body
skipped(y, m) ==
    \/ y = 2013 /\ m < FirstMonthOf2013
    \/ y = 2017 /\ m > LastMonthOf2017

launched == {p \in DOMAIN pc : pc[p] # "idle"}

\* the spawned task is over: its future returned or panicked
finished(p) == pc[p] \in {"done", "reported", "panicked"}

\* what awaiting the JoinHandle of a finished task gives
join_result(p) == IF pc[p] = "panicked" THEN Err ELSE Ok("unit")

\* the loop left at the first handle that gives an error, as with
\* `while let Some(Ok(_)) = tasks.next().await {}`
while_condition_mut(item) == item.tag = "Some" /\ item.v.tag = "Ok"

\* the condition of `while (tasks.next().await).is_some() {}`
while_condition(item) == item.tag = "Some"

\* One iteration of the loop body: skip the period, or spawn its task and
\* push the handle.
LoopBody ==
    /\ mainPc = "loop"
    /\ year < EndYear
    /\ IF skipped(year, month)
       THEN UNCHANGED <<periodVars, tasks, spawned>>
       ELSE /\ StartRun(<<year, month>>)
            /\ tasks' = tasks \cup {<<year, month>>}
            /\ spawned' = [spawned EXCEPT ![<<year, month>>] = @ + 1]
    /\ month' = IF month = 12 THEN 1 ELSE month + 1
    /\ year' = IF month = 12 THEN year + 1 ELSE year
    /\ UNCHANGED <<mainPc, parseVars, restarts, remote>>

\* The fleet model stops the loop after MaxTasks launches.
MainIterate ==
    /\ Cardinality(launched) < MaxTasks
    /\ LoopBody

MainLoopEnd ==
    /\ mainPc = "loop"
    /\ year = EndYear \/ Cardinality(launched) = MaxTasks
    /\ mainPc' = "await"
    /\ UNCHANGED <<year, month, tasks, spawned, periodVars, parseVars, restarts,
                   remote>>

\* the task's wrapper: if let Err(e) = fut.await { eprintln!(...) }
ReportError(p) ==
    /\ pc[p] = "failed"
    /\ pc' = [pc EXCEPT ![p] = "reported"]
    /\ UNCHANGED <<fs, run, games, file_counter, chunks, dirs>>

\* tasks.next().await yields the handle of a finished task
MainJoin(p) ==
    /\ mainPc = "await"
    /\ p \in tasks /\ finished(p)
    /\ tasks' = tasks \ {p}
    /\ mainPc' = IF while_condition(Some(join_result(p))) THEN "await" ELSE "returned"
    /\ UNCHANGED <<year, month, spawned, periodVars, parseVars, restarts, remote>>

\* tasks.next().await yields None: the loop ends and main returns Ok(())
MainReturn ==
    /\ mainPc = "await"
    /\ tasks = {}
    /\ ~while_condition(NoneV)
    /\ mainPc' = "returned"
    /\ UNCHANGED <<year, month, tasks, spawned, periodVars, parseVars, restarts,
                   remote>>

FleetArchiveSize == 1

\* main starts on an empty workspace
InitFleet(periods) ==
    /\ InitPeriods(periods)
    /\ remote = [p \in periods |-> FleetArchiveSize]
    /\ input = Idle /\ output = Pending
    /\ mainPc = "loop" /\ year = FirstYear /\ month = 1 /\ tasks = {}
    /\ spawned = [p \in periods |-> 0]
    /\ restarts = 0

\* the periods the loop visits before the fleet model stops it
FleetPeriods ==
    {p \in LoopRange :
        Cardinality({q \in LoopRange :
                        /\ q[1] * 12 + q[2] < p[1] * 12 + p[2]
                        /\ ~skipped(q[1], q[2])}) < MaxTasks}

InitMain == InitFleet(FleetPeriods)

\* what a step of a task leaves alone
TaskFrame == mainPc # "returned" /\ UNCHANGED <<parseVars, mainVars, restarts, remote>>

NextMain ==
    \/ MainIterate
    \/ MainLoopEnd
    \/ MainReturn
    \/ \E p \in FleetPeriods :
        \/ MainJoin(p)
        \/ EnsureFolder(p) /\ TaskFrame
        \/ EnsureParents(p) /\ TaskFrame
        \/ CheckCompressed(p) /\ TaskFrame
        \/ DownloadSend(p) /\ TaskFrame
        \/ DownloadCreate(p) /\ TaskFrame
        \/ DownloadStream(p) /\ TaskFrame
        \/ CheckDecompressed(p) /\ TaskFrame
        \/ DecompressCreate(p) /\ TaskFrame
        \/ DecompressCopy(p) /\ TaskFrame
        \/ ParseFile(p, remote[p]) /\ TaskFrame
        \/ EmitChunk(p) /\ TaskFrame
        \/ EmitDone(p) /\ TaskFrame
        \/ ReportError(p) /\ TaskFrame

SpecMain == InitMain /\ [][NextMain]_vars

-----------------------------------------------------------------------------
(* The spawn loop of main on its own, walked to its end.  tokio::spawn     *)
(* only queues a task, and no step of a task writes year, month, tasks or  *)
(* spawned, so the tasks' steps are left out here.                         *)

\* `for year in 2013..2018` is exhausted: main goes on to await the handles
LoopExhausted ==
    /\ mainPc = "loop"
    /\ year = EndYear
    /\ mainPc' = "await"
    /\ UNCHANGED <<year, month, tasks, spawned, periodVars, parseVars, restarts,
                   remote>>

\* the process exits, in the loop or after it, and is started again: its
\* tasks end with it and main begins the loop anew
MainExit ==
    /\ restarts < MaxRestarts
    /\ restarts' = restarts + 1
    /\ mainPc' = "loop" /\ year' = FirstYear /\ month' = 1 /\ tasks' = {}
    /\ spawned' = [p \in LoopRange |-> 0]
    /\ pc' = [p \in LoopRange |-> "idle"]
    /\ UNCHANGED <<fs, run, games, file_counter, chunks, dirs, parseVars, remote>>

NextLoop ==
    \/ LoopBody
    \/ LoopExhausted
    \/ MainExit

SpecLoop == InitFleet(LoopRange) /\ [][NextLoop]_vars

-----------------------------------------------------------------------------
(* Claims about the parser, under SpecParse.                               *)

RequiredTags ==
    {"Event", "Site", "White", "Black", "WhiteElo", "BlackElo", "TimeControl",
     "Result", "UTCDate", "UTCTime", "Opening", "ECO", "Termination"}

ParsedGame == output.fn = "parse_pgn_game"
ParsedFile == output.fn = "parse_pgn_file"
InputHeaders == headers_of(input.v)

\* the speed class the priority order gives an event text; Unknown carries
\* the text
SpeedClassOf(event) ==
    IF contains(to_lowercase(event), s_bullet) THEN [class |-> "Bullet", text |-> <<>>]
    ELSE IF contains(to_lowercase(event), s_blitz) THEN [class |-> "Blitz", text |-> <<>>]
    ELSE IF contains(to_lowercase(event), s_rapid) THEN [class |-> "Rapid", text |-> <<>>]
    ELSE IF contains(to_lowercase(event), s_classical) THEN [class |-> "Classical", text |-> <<>>]
    ELSE [class |-> "Unknown", text |-> event]

\* a block one of the rejection causes of the Record Builder applies to
Rejectable(h) ==
    \/ \E t \in RequiredTags : ~has(h, t)
    \/ parse_i32(h["WhiteElo"]).tag = "Err"
    \/ parse_i32(h["BlackElo"]).tag = "Err"
    \/ TimeControl_from_str(h["TimeControl"]).tag = "Err"
    \/ TerminationType_from_str(h["Termination"]).tag = "Err"

\* C4: parse_pgn_file never fails as a whole: for every archive text it
\* returns a list, which holds exactly the records of the blocks the Record
\* Builder accepts, in block order; every other block is omitted.
C4_BatchNeverFails ==
    ParsedFile =>
        /\ output.r.tag = "Ok"
        /\ \E overflow_checks \in BOOLEAN, uuid \in Uuids :
               LET blocks == game_blocks(input.v)
                   results == [i \in 1..Len(blocks) |->
                                  parse_pgn_game(blocks[i], overflow_checks, uuid + i)]
               IN  output.r.v = filter_some(results, 1)

\* C5: a block with a required tag missing, a rating that is not an integer,
\* a TimeControl that is not <minutes>+<increment> or a Termination that is
\* not an accepted spelling gives None from parse_pgn_game, never a panic.
C5_RejectionIsNone ==
    (ParsedGame /\ Rejectable(InputHeaders)) => output.r = NoneV

\* C6: extract_game_type_from_event_string returns, for every event text,
\* the class of the first keyword of bullet, blitz, rapid, classical the
\* lowercased text contains, and Unknown with the text when it contains none;
\* it never panics.
C6_SpeedClassTotal ==
    output.fn = "extract_game_type_from_event_string" =>
        /\ output.r.tag = "Ok"
        /\ IF SpeedClassOf(arg).class = "Unknown"
           THEN output.r.v = SpeedClassOf(arg)
           ELSE output.r.v = SpeedClassOf(arg).class

\* C8: in every record parse_pgn_game returns, date is None exactly when
\* UTCDate is "????.??.??" and time is None exactly when UTCTime is
\* "??:??:??" (a value that does not parse rejects the block instead).
C8_AbsentOnlyOnSentinel ==
    (ParsedGame /\ output.r.tag = "Some") =>
        /\ (output.r.v.date = NoneV) <=> (InputHeaders["UTCDate"] = s_date_unknown)
        /\ (output.r.v.time = NoneV) <=> (InputHeaders["UTCTime"] = s_time_unknown)

ElosParse(h) ==
    /\ has(h, "WhiteElo") /\ parse_i32(h["WhiteElo"]).tag = "Ok"
    /\ has(h, "BlackElo") /\ parse_i32(h["BlackElo"]).tag = "Ok"

AbsDiff(x, y) == IF w_lt(x, y) THEN w_sub(y, x) ELSE w_sub(x, y)

ArithmeticPanics ==
    {Panic("attempt to subtract with overflow"), Panic("attempt to negate with overflow")}

\* C9: when WhiteElo and BlackElo parse as integers, parse_pgn_game does not
\* panic in its arithmetic, and a record it returns stores the two header
\* values, both non-negative, and their absolute difference as rating_diff.
C9_RatingInvariant ==
    (ParsedGame /\ ElosParse(InputHeaders)) =>
        LET white == parse_i32(InputHeaders["WhiteElo"]).v
            black == parse_i32(InputHeaders["BlackElo"]).v
        IN  /\ output.r \notin ArithmeticPanics
            /\ output.r.tag = "Some" =>
                   /\ output.r.v.white_player_elo = white /\ white.hi >= 0
                   /\ output.r.v.black_player_elo = black /\ black.hi >= 0
                   /\ output.r.v.rating_diff = AbsDiff(white, black)

\* C10: extract_termination_type agrees with TerminationType::from_str on
\* every token from_str accepts, in any letter case, so that a block whose
\* Termination is "time" yields a record with termination TimeForfeit.
C10_TerminationAgrees ==
    /\ (output.fn = "extract_termination_type"
            /\ TerminationType_from_str(arg).tag = "Ok")
           => output.r = TerminationType_from_str(arg)
    /\ (ParsedGame /\ ~Rejectable(InputHeaders)
            /\ has(InputHeaders, "Event")
            /\ SpeedClassOf(InputHeaders["Event"]).class # "Unknown"
            /\ to_lowercase(InputHeaders["Termination"]) = s_time)
           => (output.r.tag = "Some" /\ output.r.v.termination_type = "TimeForfeit")

-----------------------------------------------------------------------------
(* Claims about the period pipeline, under Spec, and the fleet, under      *)
(* SpecMain.                                                               *)

\* C1: a run skips the fetch step only when the .pgn.zst on disk is the
\* complete result of a download that finished successfully.
C1_FetchSkippedOnlyIfComplete ==
    \A p \in DOMAIN pc : run[p].fetch_skipped => fs[p].zst = "complete"

\* C2: a run that starts with the .pgn file present calls neither
\* download_file nor decompress_zst_file: it goes from the two existence
\* checks to parse and chunk emission.
C2_ResumeSkipsFetchAndDecompress ==
    \A p \in DOMAIN pc :
        (pc[p] # "idle" /\ run[p].pgn_at_start) =>
            /\ ~run[p].download_called
            /\ ~run[p].decompress_called
            /\ pc[p] \in {"ensure", "check_compressed", "check_pgn", "parse",
                          "emit", "done", "failed", "panicked"}

\* a later run, started on the .pgn an earlier run left, has emitted chunks
C2_Witness ==
    \E p \in DOMAIN pc :
        /\ restarts > 0 /\ run[p].pgn_at_start
        /\ pc[p] = "done" /\ Len(chunks[p]) > 0

CeilDiv(n, c) == (n + c - 1) \div c

\* C7: the emit loop hands out the records in ceil(N / chunk_size) chunks
\* with indices 1, 2, ...; each chunk starts where the one before ended, all
\* but the last hold chunk_size records, the last between 1 and chunk_size,
\* and together they cover the N records once; N = 0 gives no chunk.
C7_ChunkEmission ==
    \A p \in DOMAIN pc :
        LET cs == chunks[p]
        IN  /\ \A i \in 1..Len(cs) :
                   /\ cs[i].index = i
                   /\ cs[i].from = (IF i = 1 THEN 0 ELSE cs[i - 1].from + cs[i - 1].len)
                   /\ cs[i].len >= 1 /\ cs[i].len <= chunk_size
                   /\ i < Len(cs) => cs[i].len = chunk_size
            /\ pc[p] = "done" =>
                   /\ Len(cs) = CeilDiv(games[p], chunk_size)
                   /\ emitted(p) = games[p]

\* a finished emit loop whose last chunk is a short one after full ones
C7_Witness ==
    \E p \in DOMAIN pc :
        /\ pc[p] = "done" /\ Len(chunks[p]) >= 2
        /\ chunks[p][Len(chunks[p])].len < chunk_size

C3_Completion ==
    mainPc = "returned" => \A p \in launched : finished(p)

\* a step in which a task fails, panics or reports its error changes nothing
\* of any other period
C3_Isolation ==
    \A p \in DOMAIN pc :
        (pc'[p] # pc[p] /\ pc'[p] \in {"failed", "panicked", "reported"}) =>
            \A q \in DOMAIN pc \ {p} :
                /\ pc'[q] = pc[q] /\ fs'[q] = fs[q] /\ run'[q] = run[q]
                /\ games'[q] = games[q] /\ chunks'[q] = chunks[q]

\* C3: a period task that fails or panics changes nothing of any other
\* period task, and main returns only when every launched task has finished
\* (done, error reported, or panicked), not at the first failure.
C3_FailureIsolation == []C3_Completion /\ [][C3_Isolation]_vars

\* main has returned with one task failed or panicked and another done
C3_Witness ==
    /\ mainPc = "returned"
    /\ \E p, q \in launched :
           pc[p] \in {"reported", "panicked"} /\ pc[q] = "done"

-----------------------------------------------------------------------------
(* Claims about the spawn loop, under SpecLoop.                            *)

\* the periods from 2013-08 through 2017-04, both included
InclusionBound ==
    {p \in {<<y, m>> : y \in 2000..2030, m \in 1..12} :
        /\ p[1] * 12 + p[2] >= 2013 * 12 + 8
        /\ p[1] * 12 + p[2] <= 2017 * 12 + 4}

\* C11: main launches process_year_month exactly once for each period from
\* 2013-08 through 2017-04 (45 periods) and for no other period: no period
\* is spawned twice, none outside the bound is spawned or started, and when
\* the loop has ended each of the 45 has been spawned once and started.
C11_InclusionBounds ==
    /\ Cardinality(InclusionBound) = 45
    /\ \A p \in DOMAIN spawned :
           /\ spawned[p] <= 1
           /\ spawned[p] > 0 => p \in InclusionBound
           /\ pc[p] # "idle" <=> spawned[p] = 1
    /\ mainPc = "await" =>
           \A p \in InclusionBound : p \in DOMAIN spawned /\ spawned[p] = 1

\* the loop has ended with 45 periods launched, after main had been
\* restarted in the middle of an earlier walk
C11_Witness ==
    /\ mainPc = "await" /\ year = EndYear /\ restarts > 0
    /\ Cardinality({p \in DOMAIN spawned : spawned[p] = 1}) = 45

-----------------------------------------------------------------------------
(* Claims about the decompressed file, under Spec.                         *)

\* the .pgn is the whole output of a decompression that returned Ok
decompression_finished(p) == fs[p].pgn \in {"complete", "truncated"}

\* C12: the parse step only ever reads a .pgn file that is the complete
\* output of a decompression that finished successfully: a run that has
\* parsed the file (it is in its emit loop or past it) did not read a .pgn
\* a failed or interrupted decompress_zst_file left behind.
C12_ParseReadsFinishedDecompression ==
    \A p \in DOMAIN pc :
        pc[p] \in {"emit", "done"} => decompression_finished(p)

-----------------------------------------------------------------------------
(* Claims about the workspace paths, under SpecMain.                       *)

\* the paths of a period's own: its working directory, its two archive
\* files and its chunk files
own_paths ==
    [p \in LoopRange |->
        {work_dir(p[1], p[2]), compressed_path(p[1], p[2]), pgn_path(p[1], p[2])}
            \cup {parquet_path(p[1], p[2], k) : k \in 1..(MaxChunks + 1)}]

period_paths(p) == own_paths[p]

\* the directories above a period's working directory
shared_dirs == [p \in LoopRange |-> parents(folder_path(p[1], p[2]))]

\* the paths the step a task stands at creates, writes or reads (for the
\* emit loop: the path it formats for the chunk)
addressing(p) ==
    CASE pc[p] = "ensure" -> {folder_path(p[1], p[2])}
      [] pc[p] = "ensure_parents" ->
             parents(folder_path(p[1], p[2])) \cup {folder_path(p[1], p[2])}
      [] pc[p] \in {"check_compressed", "download_create", "download_stream"} ->
             {compressed_path(p[1], p[2])}
      [] pc[p] \in {"check_pgn", "parse"} -> {pgn_path(p[1], p[2])}
      [] pc[p] \in {"decompress_create", "decompress_copy"} ->
             {compressed_path(p[1], p[2]), pgn_path(p[1], p[2])}
      [] pc[p] = "emit" /\ emitted(p) < games[p] ->
             {parquet_path(p[1], p[2], file_counter[p] + 1)}
      [] OTHER -> {}

\* C13 (as the code has it): the working directory, compressed archive
\* path, decompressed path and every chunk path of a period are distinct
\* from those of every other period of the bound, every path a task
\* addresses is one of its period's own or a directory above its working
\* directory, and under every interleaving the only paths two tasks address
\* at once are such directories (lichess_data, lichess_data/<year>), which
\* create_dir_all makes when they are missing.
C13_PeriodPathsDistinct ==
    /\ \A p \in launched : \A q \in launched \ {p} :
           /\ period_paths(p) \cap period_paths(q) = {}
           /\ (addressing(p) \cap addressing(q)) \subseteq
                  (shared_dirs[p] \cap shared_dirs[q])
    /\ \A p \in launched :
           addressing(p) \subseteq (period_paths(p) \cup shared_dirs[p])
    /\ (mainPc = "loop" /\ tasks = {}) =>
           \A p \in InclusionBound : \A q \in InclusionBound \ {p} :
               period_paths(p) \cap period_paths(q) = {}

\* C13 (as stated): no two launched tasks ever create, write or read the
\* same filesystem path.
C13_NoSharedPath ==
    \A p \in launched : \A q \in launched \ {p} :
        addressing(p) \cap addressing(q) = {}

\* two tasks at work on their files at once: one is writing its archive
\* while the other is decoding its own
C13_Witness ==
    \E p \in launched : \E q \in launched \ {p} :
        pc[p] = "download_stream" /\ pc[q] = "decompress_copy"

====
